---- MODULE Spec2Model ----
(***************************************************************************)
(* ScrcpyOptions1_16 (libraries/scrcpy/src/options/1_16/index.ts): the     *)
(* option value model (constructor, formatServerArguments) and the video   *)
(* stream decoder (parseVideoStream) as state machines.                    *)
(***************************************************************************)
EXTENDS Integers, Sequences, FiniteSets, TLC

\* ------------------------------------------------------------------------
\* Bounds of the model
\* ------------------------------------------------------------------------
MaxSupplied == 2    \* keys a user configuration supplies at most
MaxPackets == 3     \* records the device writes at most
MaxData == 2        \* bytes of payload per record at most
MaxCalls == 2       \* formatServerArguments() calls at most
MaxProtocols == 2   \* providers in a caller's list at most
MaxChunks == 2      \* chunks a process writes at most

\* ------------------------------------------------------------------------
\* Values.  A JavaScript value is a tagged record; Undefined is `undefined`.
\* ------------------------------------------------------------------------
Undefined == [t |-> "undefined"]
Str(s) == [t |-> "string", s |-> s]
Num(n) == [t |-> "number", n |-> n]
Bool(b) == [t |-> "boolean", b |-> b]
\* a CodecOptions object: the entries of its value in insertion order
Codec(entries) == [t |-> "CodecOptions", value |-> entries]

\* enum ScrcpyLogLevel
Verbose == Str("verbose")
Debug == Str("debug")
Info == Str("info")

\* enum ScrcpyScreenOrientation
Initial == Num(-2)
Unlocked == Num(-1)
Portrait == Num(0)
Landscape == Num(1)

\* the truthiness JavaScript's `||` tests
Truthy(v) ==
    CASE v.t = "undefined" -> FALSE
      [] v.t = "boolean" -> v.b
      [] v.t = "number" -> v.n # 0
      [] v.t = "string" -> v.s # ""
      [] OTHER -> TRUE

\* a ?? b: the left operand unless it is undefined
OrElsePresent(a, b) == IF a # Undefined THEN a ELSE b

\* the buggy variant that always takes the right operand
OrElseRight(a, b) == b

\* a || b
OrElse(a, b) == IF Truthy(a) THEN a ELSE b

\* template literal `${value}` of a primitive
TemplateString(v) ==
    CASE v.t = "string" -> v.s
      [] v.t = "number" -> ToString(v.n)
      [] v.t = "boolean" -> IF v.b THEN "true" ELSE "false"

RECURSIVE JoinComma(_)
JoinComma(strs) ==
    IF Len(strs) = 0 THEN ""
    ELSE IF Len(strs) = 1 THEN strs[1]
    ELSE strs[1] \o "," \o JoinComma(Tail(strs))

\* the buggy variant without the entries.length test: no entry joins to ""
toOptionValueJoined(codec) ==
    LET entries == SelectSeq(codec.value, LAMBDA e : e.value # Undefined)
    IN  Str(JoinComma([i \in 1..Len(entries) |->
            entries[i].key \o "=" \o TemplateString(entries[i].value)]))

\* CodecOptions.toOptionValue(): entries whose value is defined, as key=value
toOptionValue(codec) ==
    LET entries == SelectSeq(codec.value, LAMBDA e : e.value # Undefined)
    IN  IF Len(entries) = 0 THEN Undefined
        ELSE Str(JoinComma([i \in 1..Len(entries) |->
                 entries[i].key \o "=" \o TemplateString(entries[i].value)]))

\* toScrcpyOptionValue(value, empty)
toScrcpyOptionValue(value, empty) ==
    LET v == IF value.t = "CodecOptions" THEN toOptionValue(value) ELSE value
    IN  IF v = Undefined THEN empty ELSE TemplateString(v)

\* ------------------------------------------------------------------------
\* Option keys, order and defaults
\* ------------------------------------------------------------------------
\* the buggy variant with two neighbouring keys exchanged
getArgumentOrderSwapped ==
    << "logLevel", "maxSize", "bitRate", "maxFps", "lockVideoOrientation",
       "tunnelForward", "sendFrameMeta", "crop", "control", "displayId",
       "showTouches", "stayAwake", "codecOptions", "encoderName" >>

getArgumentOrder ==
    << "logLevel", "maxSize", "bitRate", "maxFps", "lockVideoOrientation",
       "tunnelForward", "crop", "sendFrameMeta", "control", "displayId",
       "showTouches", "stayAwake", "codecOptions", "encoderName" >>

Keys == { getArgumentOrder[i] : i \in 1..Len(getArgumentOrder) }

getDefaultValue ==
    [ logLevel |-> Debug,
      maxSize |-> Num(0),
      bitRate |-> Num(8000000),
      maxFps |-> Num(0),
      lockVideoOrientation |-> Unlocked,
      tunnelForward |-> Bool(FALSE),
      crop |-> Str("-"),
      sendFrameMeta |-> Bool(TRUE),
      control |-> Bool(TRUE),
      displayId |-> Num(0),
      showTouches |-> Bool(FALSE),
      stayAwake |-> Bool(FALSE),
      codecOptions |-> Codec(<< >>),
      encoderName |-> Str("-") ]

\* the values a user may supply for a key (ScrcpyOptionsInit1_16)
Supplied(key) ==
    CASE key = "logLevel" -> {Verbose, Debug, Info}
      [] key = "maxSize" -> {Num(0), Num(1080)}
      [] key = "bitRate" -> {Num(0), Num(4000000)}
      [] key = "maxFps" -> {Num(0), Num(60)}
      [] key = "lockVideoOrientation" -> {Initial, Unlocked, Portrait, Landscape}
      [] key = "tunnelForward" -> {Bool(TRUE), Bool(FALSE)}
      [] key = "crop" -> {Str(""), Str("1080:1920:0:0")}
      [] key = "sendFrameMeta" -> {Bool(TRUE), Bool(FALSE)}
      [] key = "control" -> {Bool(TRUE), Bool(FALSE)}
      [] key = "displayId" -> {Num(0), Num(1)}
      [] key = "showTouches" -> {Bool(TRUE), Bool(FALSE)}
      [] key = "stayAwake" -> {Bool(TRUE), Bool(FALSE)}
      [] key = "codecOptions" ->
            { Codec(<< >>),
              Codec(<< [key |-> "profile", value |-> Undefined] >>),
              Codec(<< [key |-> "profile", value |-> Num(1)],
                       [key |-> "level", value |-> Num(512)] >>) }
      [] key = "encoderName" -> {Str(""), Str("OMX.google.h264.encoder")}

EmptyConfig == [k \in Keys |-> Undefined]

KeySets == { S \in SUBSET Keys : Cardinality(S) <= MaxSupplied }

\* Partial<ScrcpyOptionsInit1_16> objects supplying the keys of S
ConfigsOver(S) ==
    { [k \in Keys |-> IF k \in S THEN f[k] ELSE Undefined] :
        f \in { g \in [S -> UNION { Supplied(k) : k \in S }] :
                    \A k \in S : g[k] \in Supplied(k) } }

VARIABLES
    phase,      \* "new" before the constructor ran, "constructed" after
    input,      \* the object handed to the constructor, as the caller built it
    isBase,     \* new.target === ScrcpyOptions1_16
    value,      \* this.value
    args,       \* what the last formatServerArguments() returned
    calls       \* formatServerArguments() calls made

optionVars == << phase, input, isBase, value, args, calls >>

\* ------------------------------------------------------------------------
\* Wire format: VideoPacket = int64 pts, uint32 size, size bytes of data
\* ------------------------------------------------------------------------
NoPts == -1
PtsBytes == 8
SizeBytes == 4

RECURSIVE ToBytes(_, _)
\* big-endian two's complement of v in n bytes
ToBytes(v, n) ==
    IF n = 0 THEN << >> ELSE Append(ToBytes(v \div 256, n - 1), v % 256)

RECURSIVE FromBytesUnsigned(_)
FromBytesUnsigned(bs) ==
    IF Len(bs) = 0 THEN 0
    ELSE FromBytesUnsigned(SubSeq(bs, 1, Len(bs) - 1)) * 256 + bs[Len(bs)]

\* big-endian two's complement, the sign taken from the first byte
FromBytesSigned(bs) ==
    LET first == IF bs[1] >= 128 THEN bs[1] - 256 ELSE bs[1]
    IN  FromBytesUnsigned(<< first >> \o Tail(bs))

\* the buggy variant that writes the magnitude of pts and loses its sign
SerializeUnsignedPts(p) ==
    ToBytes(IF p.pts < 0 THEN 0 - p.pts ELSE p.pts, PtsBytes)
        \o ToBytes(p.size, SizeBytes) \o p.data

\* VideoPacket.serialize
Serialize(p) == ToBytes(p.pts, PtsBytes) \o ToBytes(p.size, SizeBytes) \o p.data

Take(bs, n) == SubSeq(bs, 1, n)
Drop(bs, n) == SubSeq(bs, n + 1, Len(bs))

\* VideoPacket.deserialize(stream) on a source holding bytes: the fields in
\* declaration order, data of `size` bytes, and what is left in the source
Deserialize(bytes) ==
    LET pts == FromBytesSigned(Take(bytes, PtsBytes))
        afterPts == Drop(bytes, PtsBytes)
        size == FromBytesUnsigned(Take(afterPts, SizeBytes))
        afterSize == Drop(afterPts, SizeBytes)
    IN  [ pts |-> pts, size |-> size, data |-> Take(afterSize, size),
          rest |-> Drop(afterSize, size) ]

\* the payload of the i-th record the device writes: n bytes that no other
\* record carries
PayloadOf(i, n) == [j \in 1..n |-> 16 * i + j]

\* ------------------------------------------------------------------------
\* Parameter sets
\* ------------------------------------------------------------------------
ParseError == [error |-> "ParseError"]
NotParsed == [error |-> "none"]

Sps720p ==
    [ profile_idc |-> 66, constraint_set |-> 192, level_idc |-> 31,
      pic_width_in_mbs_minus1 |-> 79,
      pic_height_in_map_units_minus1 |-> 44,
      frame_mbs_only_flag |-> 1,
      frame_crop_left_offset |-> 0, frame_crop_right_offset |-> 0,
      frame_crop_top_offset |-> 0, frame_crop_bottom_offset |-> 0 ]

SpsSamples == { Sps720p }

\* what parse_sequence_parameter_set may do on a buffer: it throws when the
\* cursor runs past the buffer, which an empty buffer always causes
SpsOutcomes(data) ==
    IF Len(data) = 0 THEN { ParseError } ELSE SpsSamples \cup { ParseError }

\* the buggy variant that takes the crop offsets as pixels
ConfigurationDataUndoubled(sps) ==
    LET encodedWidth == (sps.pic_width_in_mbs_minus1 + 1) * 16
        encodedHeight == (sps.pic_height_in_map_units_minus1 + 1)
                            * (2 - sps.frame_mbs_only_flag) * 16
        cropLeft == sps.frame_crop_left_offset
        cropRight == sps.frame_crop_right_offset
        cropTop == sps.frame_crop_top_offset
        cropBottom == sps.frame_crop_bottom_offset
    IN  [ profileIndex |-> sps.profile_idc,
          constraintSet |-> sps.constraint_set,
          levelIndex |-> sps.level_idc,
          encodedWidth |-> encodedWidth,
          encodedHeight |-> encodedHeight,
          cropLeft |-> cropLeft,
          cropRight |-> cropRight,
          cropTop |-> cropTop,
          cropBottom |-> cropBottom,
          croppedWidth |-> encodedWidth - cropLeft - cropRight,
          croppedHeight |-> encodedHeight - cropTop - cropBottom ]

\* the `configuration` payload computed from a parsed parameter set
ConfigurationData(sps) ==
    LET encodedWidth == (sps.pic_width_in_mbs_minus1 + 1) * 16
        encodedHeight == (sps.pic_height_in_map_units_minus1 + 1)
                            * (2 - sps.frame_mbs_only_flag) * 16
        cropLeft == sps.frame_crop_left_offset * 2
        cropRight == sps.frame_crop_right_offset * 2
        cropTop == sps.frame_crop_top_offset * 2
        cropBottom == sps.frame_crop_bottom_offset * 2
    IN  [ profileIndex |-> sps.profile_idc,
          constraintSet |-> sps.constraint_set,
          levelIndex |-> sps.level_idc,
          encodedWidth |-> encodedWidth,
          encodedHeight |-> encodedHeight,
          cropLeft |-> cropLeft,
          cropRight |-> cropRight,
          cropTop |-> cropTop,
          cropBottom |-> cropBottom,
          croppedWidth |-> encodedWidth - cropLeft - cropRight,
          croppedHeight |-> encodedHeight - cropTop - cropBottom ]

Configuration(info) == [type |-> "configuration", data |-> info]
Frame(bytes) == [type |-> "frame", data |-> bytes]

VARIABLES
    packets,      \* the records the device has written, with the outcome the
                  \* parameter-set parser has on each one's data
    unsent,       \* bytes of the last write that have not arrived yet
    sourceClosed, \* the byte source has been closed
    buffer,       \* metadata mode: arrived bytes the buffered stream holds
    delivered,    \* pass-through mode: the chunks the released source produced
    pc,           \* the pull in flight: "idle", or the field it awaits
    cur,          \* the fields of the record the pull in flight has read
    header,       \* `header` of parseVideoStream
    events,       \* every event enqueued on the returned stream, in order
    streamState,  \* "readable", "closed" or "errored"
    storedError,  \* the error the stream failed with
    decoded,      \* the records VideoPacket.deserialize has returned
    endedAt       \* the field the pull awaited when the source ended

videoVars == << packets, unsent, sourceClosed, buffer, delivered, pc, cur,
                header, events, streamState, storedError, decoded,
                endedAt >>

VARIABLES
    returned      \* what the last method call on the options object returned

callVars == << returned >>

VARIABLES
    call,         \* the function applied last and its arguments
    result        \* what it returned

functionVars == << call, result >>

VARIABLES
    options,      \* the options spawnAndWait was called with
    protocols,    \* `protocols` of createProtocol: the list it iterates
    position,        \* items of the list the loop is done with
    queried,      \* the isSupported calls made, in order, with their answers
    Constructor,  \* `Constructor` of createProtocol
    spawnedWith,  \* the providers spawn was called on, in order
    ppc,          \* where spawnAndWait is
    thrown,       \* the error spawnAndWait rejected with
    process,      \* the spawned process: what it wrote, whether it exited
    pipes,        \* chunks of shell.stdout / shell.stderr not yet gathered
    gathered,     \* GatherStringStream.result of each pipe
    subprocessResult \* the SubprocessResult spawnAndWait resolved with

processVars == << options, protocols, position, queried, Constructor,
                  spawnedWith, ppc, thrown, process, pipes, gathered,
                  subprocessResult >>

otherVars == << callVars, functionVars, processVars >>

vars == << optionVars, videoVars, otherVars >>

NoCall == [op |-> "none"]

NoOptions == [given |-> FALSE, protocols |-> << >>]
NoProcess ==
    [ alive |-> FALSE, exitCode |-> 0,
      written |-> [stdout |-> << >>, stderr |-> << >>] ]
NoResult == [defined |-> FALSE, stdout |-> "", stderr |-> "", exitCode |-> 0]

ProcessInit ==
    /\ options = NoOptions
    /\ protocols = << >>
    /\ position = 0
    /\ queried = << >>
    /\ Constructor = "undefined"
    /\ spawnedWith = << >>
    /\ ppc = "start"
    /\ thrown = "none"
    /\ process = NoProcess
    /\ pipes = [stdout |-> << >>, stderr |-> << >>]
    /\ gathered = [stdout |-> "", stderr |-> ""]
    /\ subprocessResult = NoResult

OtherInit ==
    /\ returned = NoCall
    /\ call = NoCall
    /\ result = NoCall
    /\ ProcessInit

NoHeader == [defined |-> FALSE, bytes |-> << >>]
SomeHeader(bytes) == [defined |-> TRUE, bytes |-> bytes]

\* this.value.sendFrameMeta === false
PassThrough == value.sendFrameMeta = Bool(FALSE)

VideoInit ==
    /\ packets = << >>
    /\ unsent = << >>
    /\ sourceClosed = FALSE
    /\ buffer = << >>
    /\ delivered = << >>
    /\ pc = "idle"
    /\ cur = [pts |-> 0, size |-> 0]
    /\ header = NoHeader
    /\ events = << >>
    /\ streamState = "readable"
    /\ storedError = "none"
    /\ decoded = << >>
    /\ endedAt = "none"

\* ------------------------------------------------------------------------
\* constructor
\* ------------------------------------------------------------------------
\* the buggy variant that normalises whatever new.target is
NormalizeAlways(v, base) ==
    LET v1 == IF v.logLevel = Verbose THEN [v EXCEPT !.logLevel = Debug] ELSE v
    IN  IF v1.lockVideoOrientation = Initial
        THEN [v1 EXCEPT !.lockVideoOrientation = Unlocked] ELSE v1

Normalize(v, base) ==
    LET v1 == IF base /\ v.logLevel = Verbose
              THEN [v EXCEPT !.logLevel = Debug] ELSE v
    IN  IF base /\ v1.lockVideoOrientation = Initial
        THEN [v1 EXCEPT !.lockVideoOrientation = Unlocked] ELSE v1

Construct(v, base) ==
    /\ phase = "new"
    /\ phase' = "constructed"
    /\ input' = v
    /\ isBase' = base
    /\ value' = Normalize(v, base)
    /\ UNCHANGED << args, calls, videoVars, otherVars >>

\* ------------------------------------------------------------------------
\* formatServerArguments
\* ------------------------------------------------------------------------
FormatArguments(v) ==
    [i \in 1..Len(getArgumentOrder) |->
        toScrcpyOptionValue(
            OrElse(v[getArgumentOrder[i]], getDefaultValue[getArgumentOrder[i]]),
            "-")]

\* the buggy variant that writes the resolved defaults back into this.value
ValueAfterFormatResolved(v) ==
    [k \in Keys |-> OrElse(v[k], getDefaultValue[k])]

\* this.value once formatServerArguments() returned: nothing assigns to it
ValueAfterFormat(v) == v

formatServerArguments ==
    /\ phase = "constructed"
    /\ calls < MaxCalls
    /\ args' = FormatArguments(value)
    /\ calls' = calls + 1
    /\ value' = ValueAfterFormat(value)
    /\ UNCHANGED << phase, input, isBase, videoVars, otherVars >>

\* ------------------------------------------------------------------------
\* createConnection
\* ------------------------------------------------------------------------
\* the buggy variant that lets the user's `control` through
ConnectionOptionsOf(v) ==
    [ control |-> OrElsePresent(v.control, getDefaultValue.control).b,
      sendDummyByte |-> TRUE,
      sendDeviceMeta |-> TRUE ]

\* const options: ScrcpyClientConnectionOptions
ConnectionOptions(v) ==
    [ control |-> TRUE, sendDummyByte |-> TRUE, sendDeviceMeta |-> TRUE ]

\* the buggy variant with the two branches exchanged
ConnectionClassInverted(v) ==
    IF Truthy(v.tunnelForward)
    THEN "ScrcpyClientReverseConnection" ELSE "ScrcpyClientForwardConnection"

\* if (this.value.tunnelForward)
ConnectionClass(v) ==
    IF Truthy(v.tunnelForward)
    THEN "ScrcpyClientForwardConnection" ELSE "ScrcpyClientReverseConnection"

createConnection ==
    /\ phase = "constructed"
    /\ returned' = [ op |-> "createConnection",
                     class |-> ConnectionClass(value),
                     options |-> ConnectionOptions(value) ]
    /\ UNCHANGED << optionVars, functionVars, processVars, videoVars >>

\* ------------------------------------------------------------------------
\* parseVideoStream: the call itself, which fixes the mode of the stream
\* ------------------------------------------------------------------------
parseVideoStream ==
    /\ phase = "constructed"
    /\ returned' = [ op |-> "parseVideoStream", passThrough |-> PassThrough ]
    /\ UNCHANGED << optionVars, functionVars, processVars, videoVars >>

\* ------------------------------------------------------------------------
\* Control messages
\* ------------------------------------------------------------------------
\* enum ScrcpyControlMessageType
InjectScroll == 3
BackOrScreenOn == 4

NoBytes == [defined |-> FALSE, bytes |-> << >>]
SomeBytes(bytes) == [defined |-> TRUE, bytes |-> bytes]

\* ScrcpyBackOrScreenOnEvent1_16.serialize
SerializeBackOrScreenOn(message) == ToBytes(message.type, 1)

\* ScrcpyInjectScrollControlMessage1_16.serialize
SerializeInjectScroll(message) ==
    ToBytes(InjectScroll, 1)
        \o ToBytes(message.pointerX, 4) \o ToBytes(message.pointerY, 4)
        \o ToBytes(message.screenWidth, 2) \o ToBytes(message.screenHeight, 2)
        \o ToBytes(message.scrollX, 4) \o ToBytes(message.scrollY, 4)

\* the buggy variant that serializes whatever the action is
BackOrScreenOnBytesAlways(message) ==
    SomeBytes(SerializeBackOrScreenOn(message))

\* the buggy variant that returns an empty array for the other actions
BackOrScreenOnBytesEmpty(message) ==
    IF message.action = "Down"
    THEN SomeBytes(SerializeBackOrScreenOn(message))
    ELSE SomeBytes(<< >>)

\* the body of serializeBackOrScreenOnControlMessage
BackOrScreenOnBytes(message) ==
    IF message.action = "Down"
    THEN SomeBytes(SerializeBackOrScreenOn(message))
    ELSE NoBytes

\* ScrcpyBackOrScreenOnEvent1_18 messages
BackOrScreenOnMessages ==
    [ type : { BackOrScreenOn }, action : { "Down", "Up" } ]

\* ScrcpyInjectScrollControlMessage1_22 messages
InjectScrollMessages ==
    [ type : { InjectScroll }, pointerX : { 100 }, pointerY : { 200 },
      screenWidth : { 1080 }, screenHeight : { 1920 },
      scrollX : { 0 }, scrollY : { -1, 1 }, buttons : { 0 } ]

serializeBackOrScreenOnControlMessage(message) ==
    /\ phase = "constructed"
    /\ returned' = [ op |-> "serializeBackOrScreenOnControlMessage",
                     message |-> message,
                     bytes |-> BackOrScreenOnBytes(message) ]
    /\ UNCHANGED << optionVars, functionVars, processVars, videoVars >>

serializeInjectScrollControlMessage(message) ==
    /\ phase = "constructed"
    /\ returned' = [ op |-> "serializeInjectScrollControlMessage",
                     scroll |-> message,
                     array |-> SerializeInjectScroll(message) ]
    /\ UNCHANGED << optionVars, functionVars, processVars, videoVars >>

\* ------------------------------------------------------------------------
\* The device and the byte source
\* ------------------------------------------------------------------------
\* metadata mode: the server writes one VideoPacket
DeviceWrite(pts, n, sps) ==
    /\ ~PassThrough
    /\ streamState = "readable"
    /\ ~sourceClosed
    /\ unsent = << >>
    /\ Len(packets) < MaxPackets
    /\ LET data == PayloadOf(Len(packets) + 1, n)
           p == [pts |-> pts, size |-> n, data |-> data, sps |-> sps]
       IN  /\ sps \in (IF pts = NoPts THEN SpsOutcomes(data) ELSE { NotParsed })
           /\ packets' = Append(packets, p)
           /\ unsent' = Serialize(p)
    /\ UNCHANGED << optionVars, otherVars, sourceClosed, buffer, delivered, pc, cur,
                    header, events, streamState, storedError, decoded,
                    endedAt >>

\* pass-through mode: the server writes raw payload
DeviceWriteRaw(n) ==
    /\ PassThrough
    /\ streamState = "readable"
    /\ ~sourceClosed
    /\ unsent = << >>
    /\ Len(packets) < MaxPackets
    /\ LET data == PayloadOf(Len(packets) + 1, n)
       IN  /\ packets' = Append(packets,
                 [pts |-> 0, size |-> n, data |-> data, sps |-> NotParsed])
           /\ unsent' = data
    /\ UNCHANGED << optionVars, otherVars, sourceClosed, buffer, delivered, pc, cur,
                    header, events, streamState, storedError, decoded,
                    endedAt >>

\* the sizes of the next chunk: the rest of the write, a word of it, or one
\* byte of its tail
ArrivalSizes ==
    { n \in 1..Len(unsent) :
        n = Len(unsent) \/ n = SizeBytes \/ (n = 1 /\ Len(unsent) <= MaxData) }

\* n more bytes arrive as one chunk
Arrive(n) ==
    /\ ~sourceClosed
    /\ n \in ArrivalSizes
    /\ unsent' = Drop(unsent, n)
    /\ IF PassThrough
       THEN delivered' = Append(delivered, Take(unsent, n)) /\ buffer' = buffer
       ELSE buffer' = buffer \o Take(unsent, n) /\ delivered' = delivered
    /\ UNCHANGED << optionVars, otherVars, packets, sourceClosed, pc, cur, header, events,
                    streamState, storedError, decoded, endedAt >>

\* the byte source is closed or released; what has not arrived never will
SourceClose ==
    /\ ~sourceClosed
    /\ sourceClosed' = TRUE
    /\ UNCHANGED << optionVars, otherVars, packets, unsent, buffer, delivered, pc, cur,
                    header, events, streamState, storedError, decoded,
                    endedAt >>

\* ------------------------------------------------------------------------
\* parseVideoStream, pass-through mode
\* ------------------------------------------------------------------------
\* the buggy variant that merges a chunk with the one before it
transformMerged(chunk, index) ==
    IF index > 1 THEN Frame(delivered[index - 1] \o chunk) ELSE Frame(chunk)

\* transform(chunk, controller): the event enqueued for the index-th chunk
transform(chunk, index) == Frame(chunk)

PassTransform ==
    /\ PassThrough
    /\ streamState = "readable"
    /\ Len(events) < Len(delivered)
    /\ events' = Append(events,
                        transform(delivered[Len(events) + 1], Len(events) + 1))
    /\ UNCHANGED << optionVars, otherVars, packets, unsent, sourceClosed, buffer,
                    delivered, pc, cur, header, streamState,
                    storedError, decoded, endedAt >>

\* the released source is done and every chunk went through
PassClose ==
    /\ PassThrough
    /\ streamState = "readable"
    /\ sourceClosed
    /\ Len(events) = Len(delivered)
    /\ streamState' = "closed"
    /\ UNCHANGED << optionVars, otherVars, packets, unsent, sourceClosed, buffer,
                    delivered, pc, cur, header, events, storedError,
                    decoded, endedAt >>

\* ------------------------------------------------------------------------
\* parseVideoStream, metadata mode: pull(controller)
\* ------------------------------------------------------------------------
\* the stream calls pull when the consumer wants an event and no pull is in
\* flight
PullStart ==
    /\ ~PassThrough
    /\ streamState = "readable"
    /\ pc = "idle"
    /\ pc' = "pts"
    /\ UNCHANGED << optionVars, otherVars, packets, unsent, sourceClosed, buffer,
                    delivered, cur, header, events, streamState,
                    storedError, decoded, endedAt >>

\* bytes the field awaited by the pull needs
Needed == CASE pc = "pts" -> PtsBytes
            [] pc = "size" -> SizeBytes
            [] pc = "data" -> cur.size
            [] OTHER -> 0

ReadPts ==
    /\ pc = "pts"
    /\ Len(buffer) >= PtsBytes
    /\ cur' = [cur EXCEPT !.pts = FromBytesSigned(Take(buffer, PtsBytes))]
    /\ buffer' = Drop(buffer, PtsBytes)
    /\ pc' = "size"
    /\ UNCHANGED << optionVars, otherVars, packets, unsent, sourceClosed, delivered,
                    header, events, streamState, storedError, decoded,
                    endedAt >>

ReadSize ==
    /\ pc = "size"
    /\ Len(buffer) >= SizeBytes
    /\ cur' = [cur EXCEPT !.size = FromBytesUnsigned(Take(buffer, SizeBytes))]
    /\ buffer' = Drop(buffer, SizeBytes)
    /\ pc' = "data"
    /\ UNCHANGED << optionVars, otherVars, packets, unsent, sourceClosed, delivered,
                    header, events, streamState, storedError, decoded,
                    endedAt >>

\* the buggy variant that treats every error as the end of the stream
OnCaughtSwallow(e) == "close"

\* the buggy variant that rethrows every error
OnCaughtRethrow(e) == "throw"

\* catch (e): close on BufferedStreamEndedError, rethrow anything else
OnCaught(e) == IF e = "BufferedStreamEndedError" THEN "close" ELSE "throw"

\* what the stream becomes when the pull body raised e
Raise(e) ==
    IF OnCaught(e) = "close"
    THEN streamState' = "closed" /\ storedError' = storedError
    ELSE streamState' = "errored" /\ storedError' = e

\* parse_sequence_parameter_set on the data of the record being decoded
parse_sequence_parameter_set(data) == packets[Len(decoded) + 1].sps

\* the buggy variant that appends the header instead of prepending it
FrameDataAppended(hdr, data) ==
    IF hdr.defined THEN data \o hdr.bytes ELSE data

\* the buggy variant that never merges
FrameDataRaw(hdr, data) == data

\* frameData of a frame packet
FrameData(hdr, data) ==
    IF hdr.defined THEN hdr.bytes \o data ELSE data

\* the buggy variant that keeps the header after the merge
HeaderAfterFrameKept(hdr) == hdr

\* header after a frame packet
HeaderAfterFrame(hdr) == NoHeader

\* the buggy variant that concatenates successive headers
HeaderAfterConfigurationJoined(hdr, data) == SomeHeader(hdr.bytes \o data)

\* the buggy variant that keeps the earliest header until a frame takes it
HeaderAfterConfigurationFirst(hdr, data) ==
    IF hdr.defined THEN hdr ELSE SomeHeader(data)

\* header after a parameter-set packet
HeaderAfterConfiguration(hdr, data) == SomeHeader(data)

\* the last field of the record arrives and the rest of the pull body runs
ReadData ==
    /\ pc = "data"
    /\ Len(buffer) >= cur.size
    /\ LET data == Take(buffer, cur.size)
           sps == parse_sequence_parameter_set(data)
       IN  /\ buffer' = Drop(buffer, cur.size)
           /\ decoded' = Append(decoded, [pts |-> cur.pts, size |-> cur.size,
                                          data |-> data])
           /\ IF cur.pts = NoPts
              THEN IF sps = ParseError
                   THEN /\ Raise("ParseError")
                        /\ UNCHANGED << header, events >>
                   ELSE /\ header' = HeaderAfterConfiguration(header, data)
                        /\ events' = Append(events,
                                        Configuration(ConfigurationData(sps)))
                        /\ UNCHANGED << streamState, storedError >>
              ELSE /\ events' = Append(events, Frame(FrameData(header, data)))
                   /\ header' = HeaderAfterFrame(header)
                   /\ UNCHANGED << streamState, storedError >>
    /\ pc' = "idle"
    /\ UNCHANGED << optionVars, otherVars, packets, unsent, sourceClosed, delivered, cur,
                    endedAt >>

\* the buffered stream fails a read with BufferedStreamEndedError when the
\* source is closed or released before the awaited bytes are there
StreamEnded == sourceClosed /\ Len(buffer) < Needed

\* the buggy variant that flushes the bytes of the unfinished record as a
\* Frame before it closes the stream
ReadEndedFlushing ==
    /\ pc \in {"pts", "size", "data"}
    /\ StreamEnded
    /\ Raise("BufferedStreamEndedError")
    /\ events' = Append(events, Frame(buffer))
    /\ endedAt' = pc
    /\ pc' = "idle"
    /\ UNCHANGED << optionVars, otherVars, packets, unsent, sourceClosed, buffer,
                    delivered, cur, header, decoded >>

\* the source ended before the awaited field: deserialize throws
\* BufferedStreamEndedError and the catch clause closes the stream
ReadEnded ==
    /\ pc \in {"pts", "size", "data"}
    /\ StreamEnded
    /\ Raise("BufferedStreamEndedError")
    /\ endedAt' = pc
    /\ pc' = "idle"
    /\ UNCHANGED << optionVars, otherVars, packets, unsent, sourceClosed, buffer,
                    delivered, cur, header, events, decoded >>

\* ------------------------------------------------------------------------
\* Specifications
\* ------------------------------------------------------------------------
PtsValues == { NoPts, 0 }

\* payload sizes the device writes: none, or as many bytes as a record holds
DataSizes == { 0, MaxData }

\* the decoder on an options object constructed with sendFrameMeta absent,
\* true or false
Init ==
    /\ phase = "constructed"
    /\ input \in ConfigsOver({"sendFrameMeta"}) \cup { EmptyConfig }
    /\ isBase = TRUE
    /\ value = Normalize(input, isBase)
    /\ args = << >>
    /\ calls = 0
    /\ VideoInit
    /\ OtherInit

Next ==
    \/ \E pts \in PtsValues, n \in DataSizes,
          sps \in SpsSamples \cup { ParseError, NotParsed } :
            DeviceWrite(pts, n, sps)
    \/ \E n \in DataSizes \ {0} : DeviceWriteRaw(n)
    \/ \E n \in 1..(PtsBytes + SizeBytes + MaxData) : Arrive(n)
    \/ SourceClose
    \/ PassTransform
    \/ PassClose
    \/ PullStart
    \/ ReadPts
    \/ ReadSize
    \/ ReadData
    \/ ReadEnded

Spec == Init /\ [][Next]_vars

\* the options object alone: construction and argument formatting
InitOptions ==
    /\ phase = "new"
    /\ input = EmptyConfig
    /\ isBase = TRUE
    /\ value = EmptyConfig
    /\ args = << >>
    /\ calls = 0
    /\ VideoInit
    /\ OtherInit

NextOptions ==
    \/ \E S \in KeySets : \E v \in ConfigsOver(S) : \E base \in BOOLEAN :
          Construct(v, base)
    \/ formatServerArguments

SpecOptions == InitOptions /\ [][NextOptions]_vars

\* the keys the methods other than formatServerArguments read, and one they
\* do not
MethodKeys == { "tunnelForward", "control", "sendFrameMeta", "bitRate" }

\* the methods of a constructed options object, called in any order
InitMethods ==
    /\ phase = "constructed"
    /\ \E S \in KeySets : S \subseteq MethodKeys /\ input \in ConfigsOver(S)
    /\ isBase \in BOOLEAN
    /\ value = Normalize(input, isBase)
    /\ args = << >>
    /\ calls = 0
    /\ VideoInit
    /\ OtherInit

NextMethods ==
    \/ formatServerArguments
    \/ createConnection
    \/ parseVideoStream
    \/ \E message \in BackOrScreenOnMessages :
          serializeBackOrScreenOnControlMessage(message)
    \/ \E message \in InjectScrollMessages :
          serializeInjectScrollControlMessage(message)

SpecMethods == InitMethods /\ [][NextMethods]_vars

\* ------------------------------------------------------------------------
\* The functions of the module, applied to inputs of their own
\* ------------------------------------------------------------------------
\* parameter sets parse_sequence_parameter_set may return
SpsInputs ==
    { [ Sps720p EXCEPT !.pic_width_in_mbs_minus1 = w,
                       !.pic_height_in_map_units_minus1 = h,
                       !.frame_mbs_only_flag = f,
                       !.frame_crop_left_offset = l,
                       !.frame_crop_right_offset = r,
                       !.frame_crop_top_offset = t,
                       !.frame_crop_bottom_offset = b ] :
        w \in { 0, 79 }, h \in { 0, 44 }, f \in { 0, 1 },
        l \in { 0, 2 }, r \in { 0, 2 }, t \in { 0, 2 }, b \in { 0, 2 } }

\* lines 251-259 on a parsed parameter set
ComputeConfiguration(sps) ==
    /\ call' = [op |-> "configuration", sps |-> sps]
    /\ result' = [op |-> "configuration", info |-> ConfigurationData(sps)]
    /\ UNCHANGED << optionVars, videoVars, callVars, processVars >>

PtsInputs ==
    { -2147483647, -65536, -256, -1, 0, 1, 255, 256, 2147483647 }

DataInputs == UNION { [1..n -> { 0, 255 }] : n \in 0..MaxData }

PacketInputs ==
    { [pts |-> pts, size |-> Len(data), data |-> data] :
        pts \in PtsInputs, data \in DataInputs }

\* what follows the packet in the source
TrailerInputs == { << >>, << 0 >>, << 255, 255 >> }

\* VideoPacket.deserialize on the bytes VideoPacket.serialize gives for p,
\* followed in the source by trailer
DeserializeSerialized(p, trailer) ==
    /\ call' = [ op |-> "deserialize", packet |-> p, trailer |-> trailer,
                 bytes |-> Serialize(p) \o trailer ]
    /\ result' = [ op |-> "deserialize",
                   packet |-> Deserialize(Serialize(p) \o trailer) ]
    /\ UNCHANGED << optionVars, videoVars, callVars, processVars >>

CodecValueInputs == { Undefined, Num(1), Num(512) }

\* Partial<CodecOptionsInit> objects, as their entries in insertion order
CodecInputs ==
    { << >> }
    \cup { << [key |-> k, value |-> v] >> :
             k \in { "profile", "level" }, v \in CodecValueInputs }
    \cup { << [key |-> k[1], value |-> v], [key |-> k[2], value |-> w] >> :
             k \in { << "profile", "level" >>, << "level", "profile" >> },
             v \in CodecValueInputs, w \in CodecValueInputs }

\* new CodecOptions(entries).toOptionValue(), and the argument line 193
\* makes of the object
CodecToOptionValue(entries) ==
    /\ call' = [op |-> "toOptionValue", entries |-> entries]
    /\ result' =
          [ op |-> "toOptionValue",
            value |-> toOptionValue(Codec(entries)),
            argument |-> toScrcpyOptionValue(
                OrElse(Codec(entries), getDefaultValue.codecOptions), "-") ]
    /\ UNCHANGED << optionVars, videoVars, callVars, processVars >>

InitFunctions ==
    /\ phase = "new"
    /\ input = EmptyConfig
    /\ isBase = TRUE
    /\ value = EmptyConfig
    /\ args = << >>
    /\ calls = 0
    /\ VideoInit
    /\ OtherInit

NextFunctions ==
    \/ \E sps \in SpsInputs : ComputeConfiguration(sps)
    \/ \E p \in PacketInputs, trailer \in TrailerInputs :
          DeserializeSerialized(p, trailer)
    \/ \E entries \in CodecInputs : CodecToOptionValue(entries)

SpecFunctions == InitFunctions /\ [][NextFunctions]_vars

\* ------------------------------------------------------------------------
\* AdbSubprocess: createProtocol and spawnAndWait
\* ------------------------------------------------------------------------
\* const DefaultOptions
DefaultOptions ==
    [ protocols |-> << "AdbShellSubprocessProtocol",
                       "AdbNoneSubprocessProtocol" >> ]

\* the providers a caller may list
Providers ==
    { "AdbShellSubprocessProtocol", "AdbNoneSubprocessProtocol",
      "CustomProtocol" }

ProtocolLists ==
    UNION { [1..n -> Providers] : n \in 0..MaxProtocols }

\* Partial<AdbSubprocessOptions> values a caller may pass
CallerOptions ==
    { NoOptions } \cup { [given |-> TRUE, protocols |-> l] : l \in ProtocolLists }

\* let { protocols } = { ...DefaultOptions, ...options }
EffectiveProtocols(o) ==
    IF o.given THEN o.protocols ELSE DefaultOptions.protocols

\* spawnAndWait(command, options) enters createProtocol
SpawnAndWait(o) ==
    /\ ppc = "start"
    /\ options' = o
    /\ protocols' = EffectiveProtocols(o)
    /\ position' = 0
    /\ ppc' = "selecting"
    /\ UNCHANGED << optionVars, videoVars, callVars, functionVars, queried,
                    Constructor, spawnedWith, thrown, process, pipes,
                    gathered, subprocessResult >>

\* the buggy variant without the break: the loop goes on to the next item
AfterSupportedContinue(i) == i + 1

\* where the loop is after an item answered true: `break` ends it
AfterSupported(i) == Len(protocols)

\* one turn of the for loop: await item.isSupported(this.adb)
IsSupported(answer) ==
    /\ ppc = "selecting"
    /\ position < Len(protocols)
    /\ LET item == protocols[position + 1]
       IN  /\ queried' = Append(queried, [item |-> item, supported |-> answer])
           /\ IF answer
              THEN /\ Constructor' = item
                   /\ position' = AfterSupported(position)
              ELSE /\ Constructor' = Constructor
                   /\ position' = position + 1
    /\ UNCHANGED << optionVars, videoVars, callVars, functionVars, options,
                    protocols, spawnedWith, ppc, thrown, process, pipes,
                    gathered, subprocessResult >>

\* if (!Constructor) throw: the loop ended with nothing chosen
NoProtocolSupported ==
    /\ ppc = "selecting"
    /\ position >= Len(protocols)
    /\ Constructor = "undefined"
    /\ thrown' = "No specified protocol is supported by the device"
    /\ ppc' = "failed"
    /\ UNCHANGED << optionVars, videoVars, callVars, functionVars, options,
                    protocols, position, queried, Constructor, spawnedWith,
                    process, pipes, gathered, subprocessResult >>

\* return await Constructor.spawn(this.adb, command), and the pipes are set up
Spawn ==
    /\ ppc = "selecting"
    /\ position >= Len(protocols)
    /\ Constructor # "undefined"
    /\ spawnedWith' = Append(spawnedWith, Constructor)
    /\ process' = [process EXCEPT !.alive = TRUE]
    /\ ppc' = "waiting"
    /\ UNCHANGED << optionVars, videoVars, callVars, functionVars, options,
                    protocols, position, queried, Constructor, thrown, pipes,
                    gathered, subprocessResult >>

\* the bytes of the k-th chunk a process writes
ChunkOf(k) == << 96 + k >>

Utf8Char(b) ==
    CASE b = 97 -> "a" [] b = 98 -> "b" [] b = 99 -> "c" [] b = 100 -> "d"
      [] OTHER -> "?"

RECURSIVE decodeUtf8(_)
decodeUtf8(bytes) ==
    IF Len(bytes) = 0 THEN ""
    ELSE Utf8Char(bytes[1]) \o decodeUtf8(Tail(bytes))

Written == Len(process.written.stdout) + Len(process.written.stderr)

\* the process writes a chunk to one of its pipes
ProcessWrite(pipe) ==
    /\ process.alive
    /\ Written < MaxChunks
    /\ LET chunk == ChunkOf(Written + 1)
       IN  /\ process' = [process EXCEPT
                             !.written[pipe] = Append(@, chunk)]
           /\ pipes' = [pipes EXCEPT ![pipe] = Append(@, chunk)]
    /\ UNCHANGED << optionVars, videoVars, callVars, functionVars, options,
                    protocols, position, queried, Constructor, spawnedWith, ppc,
                    thrown, gathered, subprocessResult >>

\* the process exits
ProcessExit(code) ==
    /\ process.alive
    /\ process' = [process EXCEPT !.alive = FALSE, !.exitCode = code]
    /\ UNCHANGED << optionVars, videoVars, callVars, functionVars, options,
                    protocols, position, queried, Constructor, spawnedWith, ppc,
                    thrown, pipes, gathered, subprocessResult >>

\* pipeThrough(new DecodeUtf8Stream()).pipeThrough(gather): one chunk moves
\* from the pipe into the gathered string
PipeChunk(pipe) ==
    /\ pipes[pipe] # << >>
    /\ gathered' = [gathered EXCEPT ![pipe] = @ \o decodeUtf8(Head(pipes[pipe]))]
    /\ pipes' = [pipes EXCEPT ![pipe] = Tail(@)]
    /\ UNCHANGED << optionVars, videoVars, callVars, functionVars, options,
                    protocols, position, queried, Constructor, spawnedWith, ppc,
                    thrown, process, subprocessResult >>

\* shell.exit resolved: spawnAndWait reads the gathered strings and returns
ExitResolved ==
    /\ ppc = "waiting"
    /\ ~process.alive
    /\ subprocessResult' = [ defined |-> TRUE,
                             stdout |-> gathered.stdout,
                             stderr |-> gathered.stderr,
                             exitCode |-> process.exitCode ]
    /\ ppc' = "returned"
    /\ UNCHANGED << optionVars, videoVars, callVars, functionVars, options,
                    protocols, position, queried, Constructor, spawnedWith,
                    thrown, process, pipes, gathered >>

ExitCodes == { 0, 1 }

InitSubprocess ==
    /\ phase = "new"
    /\ input = EmptyConfig
    /\ isBase = TRUE
    /\ value = EmptyConfig
    /\ args = << >>
    /\ calls = 0
    /\ VideoInit
    /\ OtherInit

NextSubprocess ==
    \/ \E o \in CallerOptions : SpawnAndWait(o)
    \/ \E answer \in BOOLEAN : IsSupported(answer)
    \/ NoProtocolSupported
    \/ Spawn
    \/ \E pipe \in { "stdout", "stderr" } : ProcessWrite(pipe)
    \/ \E code \in ExitCodes : ProcessExit(code)
    \/ \E pipe \in { "stdout", "stderr" } : PipeChunk(pipe)
    \/ ExitResolved

SpecSubprocess == InitSubprocess /\ [][NextSubprocess]_vars

\* the continuation of the pull in flight, whichever await it is at
PullStep == ReadPts \/ ReadSize \/ ReadData \/ ReadEnded

\* the decoder of an options object that leaves sendFrameMeta to its default
InitMetadata ==
    /\ phase = "constructed"
    /\ input = EmptyConfig
    /\ isBase = TRUE
    /\ value = Normalize(input, isBase)
    /\ args = << >>
    /\ calls = 0
    /\ VideoInit
    /\ OtherInit

NextMetadata ==
    \/ \E pts \in PtsValues, n \in DataSizes,
          sps \in SpsSamples \cup { ParseError, NotParsed } :
            DeviceWrite(pts, n, sps)
    \/ \E n \in 1..(PtsBytes + SizeBytes + MaxData) : Arrive(n)
    \/ SourceClose
    \/ PullStart
    \/ PullStep

\* the event loop runs the continuation of a pull whose await has settled
FairSpec == InitMetadata /\ [][NextMetadata]_vars /\ WF_vars(PullStep)

\* ------------------------------------------------------------------------
\* Properties
\* ------------------------------------------------------------------------
IsFrame(e) == e.type = "frame"
IsConfiguration(e) == e.type = "configuration"

\* C1: in metadata mode a Frame that directly follows a Configuration is the
\* header bytes of that parameter-set packet followed by the frame packet's
\* data; a Frame with no Configuration before it is the packet's data.
C1_FrameAfterConfiguration ==
    ~PassThrough =>
        \A i \in 1..Len(events) :
            IsFrame(events[i]) =>
                /\ (i > 1 /\ IsConfiguration(events[i - 1]))
                       => events[i].data = packets[i - 1].data \o packets[i].data
                /\ (\A j \in 1..(i - 1) : ~IsConfiguration(events[j]))
                       => events[i].data = packets[i].data

C1_Witness ==
    /\ ~PassThrough
    /\ Len(events) = 3
    /\ IsFrame(events[1]) /\ IsConfiguration(events[2]) /\ IsFrame(events[3])
    /\ Len(packets[1].data) > 0
    /\ Len(packets[2].data) > 0
    /\ Len(packets[3].data) > 0

\* the step in which a pull receives the last field of its record
PullDecodes == pc = "data" /\ decoded' # decoded

\* C2: in metadata mode every pull decodes one record and enqueues at most
\* one event: a NoPts record that parses gives one Configuration, stores its
\* data as the header and gives no Frame; any other record gives one Frame
\* and no Configuration.
C2_OneEventPerPull ==
    [][ ~PassThrough =>
          /\ decoded' # decoded =>
                /\ pc = "data" /\ pc' = "idle"
                /\ Len(decoded') = Len(decoded) + 1
                /\ SubSeq(decoded', 1, Len(decoded)) = decoded
          /\ (pc' = "pts" /\ pc # "pts") => pc = "idle" /\ decoded' = decoded
          /\ events' # events =>
                /\ PullDecodes
                /\ Len(events') = Len(events) + 1
                /\ SubSeq(events', 1, Len(events)) = events
          /\ PullDecodes =>
                LET p == decoded'[Len(decoded')]
                    e == events'[Len(events')]
                IN  IF p.pts = NoPts
                    THEN \/ /\ streamState' = "errored"
                            /\ events' = events
                         \/ /\ Len(events') = Len(events) + 1
                            /\ IsConfiguration(e)
                            /\ header' = SomeHeader(p.data)
                    ELSE /\ Len(events') = Len(events) + 1
                         /\ IsFrame(e)
       ]_vars

C2_Witness ==
    /\ ~PassThrough
    /\ pc = "idle"
    /\ Len(decoded) = 2
    /\ Len(events) = 2
    /\ decoded[1].pts = NoPts /\ IsConfiguration(events[1])
    /\ decoded[2].pts = NoPts /\ IsConfiguration(events[2])
    /\ header = SomeHeader(decoded[2].data)

\* records of which every byte arrived
CompleteRecords == IF unsent = << >> THEN Len(packets) ELSE Len(packets) - 1

\* the event is the one record p gives: its kind matches the pts and a frame
\* ends with the data of p
EventOfRecord(e, p) ==
    IF p.pts = NoPts
    THEN IsConfiguration(e)
    ELSE /\ IsFrame(e)
         /\ Len(e.data) >= Len(p.data)
         /\ Drop(e.data, Len(e.data) - Len(p.data)) = p.data

\* C3: when the source ends, at a record boundary or inside a record, the
\* stream is closed without an error, there is one event for each complete
\* record and none for the incomplete one.
C3_CleanEndOfStream ==
    ~PassThrough =>
        /\ storedError # "BufferedStreamEndedError"
        /\ endedAt # "none" =>
              /\ streamState = "closed"
              /\ storedError = "none"
              /\ Len(events) = CompleteRecords
              /\ \A i \in 1..Len(events) :
                    /\ EventOfRecord(events[i], packets[i])
                    /\ IsConfiguration(events[i]) =>
                          events[i].data = ConfigurationData(packets[i].sps)

C3_Witness ==
    /\ ~PassThrough
    /\ streamState = "closed"
    /\ endedAt = "data"
    /\ Len(buffer) > 0
    /\ Len(events) = 2
    /\ Len(packets) = 3

\* the step in which the parameter-set parser throws
ParserThrows ==
    /\ PullDecodes
    /\ cur.pts = NoPts
    /\ parse_sequence_parameter_set(Take(buffer, cur.size)) = ParseError

\* C4: when the parameter-set parser throws, no event is enqueued, the
\* header is left as it was, the stream fails with the parser's error, and a
\* failed stream produces nothing more.
C4_ParseFailureIsFatal ==
    [][ /\ ParserThrows =>
              /\ events' = events
              /\ header' = header
              /\ streamState' = "errored"
              /\ storedError' = "ParseError"
        /\ streamState = "errored" =>
              /\ events' = events
              /\ decoded' = decoded
              /\ pc' = pc
              /\ streamState' = "errored"
      ]_vars

C4_Witness ==
    /\ streamState = "errored"
    /\ storedError = "ParseError"
    /\ Len(decoded) = 2
    /\ Len(events) = 1
    /\ header = SomeHeader(decoded[1].data)
    /\ decoded[2].data # decoded[1].data
    /\ Len(decoded[2].data) > 0

\* C5 as stated: every rendered argument comes from the user's value when
\* the user supplied one for the key, false, 0 and "" included, and from the
\* default only when the user supplied none.
C5_UserValueWins ==
    args # << >> =>
        \A i \in 1..Len(getArgumentOrder) :
            LET key == getArgumentOrder[i]
            IN  args[i] = toScrcpyOptionValue(
                              OrElsePresent(value[key], getDefaultValue[key]),
                              "-")

\* the order of the arguments and the rendering of each default, as the
\* server of version 1.16 expects them
ServerOrder ==
    << "logLevel", "maxSize", "bitRate", "maxFps", "lockVideoOrientation",
       "tunnelForward", "crop", "sendFrameMeta", "control", "displayId",
       "showTouches", "stayAwake", "codecOptions", "encoderName" >>

DefaultArguments ==
    << "debug", "0", "8000000", "0", "-1", "false", "-", "true", "true", "0",
       "false", "false", "-", "-" >>

\* C6: formatServerArguments() returns 14 entries in the fixed key order for
\* every configuration; on an empty configuration they are the rendered
\* defaults, the empty CodecOptions as "-".
C6_FourteenPositions ==
    args # << >> =>
        /\ Len(args) = 14
        /\ value = EmptyConfig => args = DefaultArguments
        /\ \A i \in 1..14 :
              LET v == value[ServerOrder[i]]
              IN  /\ v = Undefined => args[i] = DefaultArguments[i]
                  /\ Truthy(v) => args[i] = toScrcpyOptionValue(v, "-")

C6_Witness ==
    /\ phase = "constructed"
    /\ value = EmptyConfig
    /\ args = DefaultArguments
    /\ calls = 1

\* C7: in pass-through mode the events are the chunks of the released
\* source, one Frame per chunk, in order and verbatim; there is no
\* Configuration and no header.
C7_PassThroughVerbatim ==
    PassThrough =>
        /\ Len(events) <= Len(delivered)
        /\ \A i \in 1..Len(events) : events[i] = Frame(delivered[i])
        /\ header = NoHeader
        /\ streamState = "closed" => Len(events) = Len(delivered)
        /\ streamState # "errored"

C7_Witness ==
    /\ PassThrough
    /\ streamState = "closed"
    /\ Len(events) = 3
    /\ Len(packets) = 2
    /\ events[1].data \o events[2].data = packets[1].data
    /\ events[3].data = packets[2].data

\* C8: in metadata mode the i-th event comes from the i-th record decoded,
\* the records are decoded in the order the device wrote them, and a Frame
\* that carries header bytes carries those of a Configuration emitted before.
C8_SourceOrder ==
    ~PassThrough =>
        /\ Len(decoded) <= Len(packets)
        /\ Len(events) <= Len(decoded)
        /\ \A i \in 1..Len(decoded) :
              /\ decoded[i].pts = packets[i].pts
              /\ decoded[i].data = packets[i].data
        /\ \A i \in 1..Len(events) :
              /\ EventOfRecord(events[i], decoded[i])
              /\ (IsFrame(events[i]) /\ events[i].data # decoded[i].data) =>
                    \E j \in 1..(i - 1) :
                        /\ IsConfiguration(events[j])
                        /\ decoded[j].pts = NoPts
                        /\ events[i].data = decoded[j].data \o decoded[i].data

C8_Witness ==
    /\ ~PassThrough
    /\ Len(events) = 3
    /\ IsConfiguration(events[1])
    /\ IsFrame(events[2])
    /\ IsFrame(events[3])
    /\ events[2].data = decoded[1].data \o decoded[2].data
    /\ events[2].data # decoded[2].data
    /\ events[3].data = decoded[3].data

\* a pull is in flight and the bytes it awaits are not there
PullAwaitsBytes ==
    /\ ~PassThrough
    /\ pc \in {"pts", "size", "data"}
    /\ Len(buffer) < Needed

\* C9: a pull that awaits bytes when the source is closed or released
\* completes, and the stream becomes closed without an error.
C9_ClosedSourceEndsPull ==
    (PullAwaitsBytes /\ sourceClosed)
        ~> (pc = "idle" /\ streamState = "closed" /\ storedError = "none")

C9_Witness ==
    /\ ~PassThrough
    /\ sourceClosed
    /\ pc = "idle"
    /\ streamState = "closed"
    /\ endedAt = "size"
    /\ Len(events) = 1

\* C10: the constructor of exactly the base version maps logLevel verbose to
\* debug and lockVideoOrientation Initial to Unlocked and keeps every other
\* field; an extended version keeps the whole object.
C10_BaseOnlyNormalization ==
    phase = "constructed" =>
        /\ \A k \in Keys \ {"logLevel", "lockVideoOrientation"} :
              value[k] = input[k]
        /\ value.logLevel =
              (IF isBase /\ input.logLevel = Verbose THEN Debug
               ELSE input.logLevel)
        /\ value.lockVideoOrientation =
              (IF isBase /\ input.lockVideoOrientation = Initial THEN Unlocked
               ELSE input.lockVideoOrientation)
        /\ ~isBase => value = input

C10_Witness ==
    /\ phase = "constructed"
    /\ isBase
    /\ input.logLevel = Verbose
    /\ input.lockVideoOrientation = Initial
    /\ value.logLevel = Debug
    /\ value.lockVideoOrientation = Unlocked

\* C11: once constructed, no method of the options object changes .value:
\* a field the user left absent stays absent, defaults show in the rendered
\* arguments only, and formatServerArguments() returns the same sequence
\* every time.
C11_ValueNeverMutated ==
    [][ phase = "constructed" =>
          /\ value' = value
          /\ \A k \in Keys : input[k] = Undefined => value'[k] = Undefined
          /\ (args # << >> /\ calls' # calls) => args' = args
      ]_vars

C11_Witness ==
    /\ phase = "constructed"
    /\ calls = 2
    /\ returned.op = "createConnection"
    /\ value.bitRate = Undefined
    /\ args[3] = "8000000"
    /\ value.tunnelForward = Bool(TRUE)
    /\ args[6] = "true"

\* C12: createConnection() picks the forward connection when tunnelForward
\* is true and the reverse connection when it is false or absent, and always
\* passes control, sendDummyByte and sendDeviceMeta as true.
C12_TunnelSelection ==
    returned.op = "createConnection" =>
        /\ value.tunnelForward = Bool(TRUE)
              => returned.class = "ScrcpyClientForwardConnection"
        /\ value.tunnelForward \in { Bool(FALSE), Undefined }
              => returned.class = "ScrcpyClientReverseConnection"
        /\ returned.options.control = TRUE
        /\ returned.options.sendDummyByte = TRUE
        /\ returned.options.sendDeviceMeta = TRUE

C12_Witness ==
    /\ returned.op = "createConnection"
    /\ value.tunnelForward = Bool(TRUE)
    /\ value.control = Bool(FALSE)
    /\ returned.class = "ScrcpyClientForwardConnection"
    /\ returned.options.control = TRUE

\* C13: a back/screen-on message serializes to the one byte of its type on
\* key-down and to no result at all on any other action.
C13_BackOrScreenOnKeyDownOnly ==
    returned.op = "serializeBackOrScreenOnControlMessage" =>
        IF returned.message.action = "Down"
        THEN /\ returned.bytes.defined
             /\ returned.bytes.bytes = << returned.message.type >>
        ELSE returned.bytes = [defined |-> FALSE, bytes |-> << >>]

C13_Witness ==
    /\ returned.op = "serializeBackOrScreenOnControlMessage"
    /\ returned.message.action = "Up"
    /\ ~returned.bytes.defined

\* the list createProtocol is to use: the caller's when given, else the default
ExpectedProtocols ==
    IF options.given THEN options.protocols
    ELSE << "AdbShellSubprocessProtocol", "AdbNoneSubprocessProtocol" >>

SelectionOver == ppc \in { "failed", "waiting", "returned" }

\* C14: the providers are asked in list order, the first that answers
\* supported is the one spawned and none after it is asked; when none
\* answers supported the call fails and nothing is spawned; the provider
\* used is one of the effective list.
C14_FirstSupportedProvider ==
    ppc # "start" =>
        /\ Len(queried) <= Len(ExpectedProtocols)
        /\ \A i \in 1..Len(queried) :
              /\ queried[i].item = ExpectedProtocols[i]
              /\ i < Len(queried) => ~queried[i].supported
        /\ Len(spawnedWith) <= 1
        /\ spawnedWith # << >> =>
              /\ queried # << >>
              /\ queried[Len(queried)].supported
              /\ spawnedWith[1] = queried[Len(queried)].item
              /\ \E i \in 1..Len(ExpectedProtocols) :
                    ExpectedProtocols[i] = spawnedWith[1]
              /\ thrown = "none"
        /\ SelectionOver =>
              IF \E i \in 1..Len(queried) : queried[i].supported
              THEN spawnedWith # << >>
              ELSE /\ ppc = "failed"
                   /\ thrown # "none"
                   /\ spawnedWith = << >>
                   /\ Len(queried) = Len(ExpectedProtocols)

C14_Witness ==
    /\ options.given
    /\ Len(options.protocols) = 2
    /\ options.protocols[1] = "CustomProtocol"
    /\ options.protocols[2] = "AdbNoneSubprocessProtocol"
    /\ Len(queried) = 2
    /\ ~queried[1].supported
    /\ spawnedWith = << "AdbNoneSubprocessProtocol" >>
    /\ ppc = "waiting"

\* the whole output of a pipe, decoded
EntireOutput(pipe) ==
    LET chunks == process.written[pipe]
        F[i \in 0..Len(chunks)] ==
            IF i = 0 THEN "" ELSE F[i - 1] \o decodeUtf8(chunks[i])
    IN  F[Len(chunks)]

\* C15 as stated: whatever the order of the chunks and the exit, the result
\* of spawnAndWait holds every chunk of each pipe, in order, and the exit
\* code of the process.
C15_EntireOutput ==
    subprocessResult.defined =>
        /\ subprocessResult.stdout = EntireOutput("stdout")
        /\ subprocessResult.stderr = EntireOutput("stderr")
        /\ subprocessResult.exitCode = process.exitCode

\* C16: the geometry of a configuration event is computed from the parsed
\* parameter set as stated: widths and heights in units of 16, heights
\* doubled for field coding, crops twice the offsets, cropped sizes the
\* encoded sizes less the crops; 79/44/1 with no crop is 1280x720, and a
\* left offset of 2 gives cropLeft 4 and croppedWidth 1276.
C16_ConfigurationGeometry ==
    result.op = "configuration" =>
        LET sps == call.sps
            info == result.info
        IN  /\ info.encodedWidth = (sps.pic_width_in_mbs_minus1 + 1) * 16
            /\ info.encodedHeight =
                  IF sps.frame_mbs_only_flag = 1
                  THEN (sps.pic_height_in_map_units_minus1 + 1) * 16
                  ELSE (sps.pic_height_in_map_units_minus1 + 1) * 32
            /\ info.cropLeft = sps.frame_crop_left_offset + sps.frame_crop_left_offset
            /\ info.cropRight = sps.frame_crop_right_offset + sps.frame_crop_right_offset
            /\ info.cropTop = sps.frame_crop_top_offset + sps.frame_crop_top_offset
            /\ info.cropBottom = sps.frame_crop_bottom_offset + sps.frame_crop_bottom_offset
            /\ info.croppedWidth + info.cropLeft + info.cropRight = info.encodedWidth
            /\ info.croppedHeight + info.cropTop + info.cropBottom = info.encodedHeight
            /\ sps = Sps720p =>
                  /\ info.encodedWidth = 1280 /\ info.encodedHeight = 720
                  /\ info.croppedWidth = 1280 /\ info.croppedHeight = 720
            /\ sps = [Sps720p EXCEPT !.frame_crop_left_offset = 2] =>
                  /\ info.cropLeft = 4
                  /\ info.croppedWidth = 1276

C16_Witness ==
    /\ result.op = "configuration"
    /\ call.sps = [Sps720p EXCEPT !.frame_crop_left_offset = 2]
    /\ result.info.cropLeft = 4
    /\ result.info.croppedWidth = 1276
    /\ result.info.encodedHeight = 720

\* C17: decoding the encoding of a packet gives back its pts, size and data
\* and takes exactly 12 + size bytes from the source, leaving what followed.
C17_VideoPacketRoundTrip ==
    result.op = "deserialize" =>
        /\ result.packet.pts = call.packet.pts
        /\ result.packet.size = call.packet.size
        /\ result.packet.data = call.packet.data
        /\ result.packet.rest = call.trailer
        /\ Len(call.bytes) - Len(result.packet.rest) = 12 + call.packet.size

C17_Witness ==
    /\ result.op = "deserialize"
    /\ call.packet.pts = -2147483647
    /\ call.packet.data = << 255, 0 >>
    /\ call.trailer = << 255, 255 >>
    /\ result.packet.pts = -2147483647
    /\ result.packet.rest = << 255, 255 >>

\* the text of one codec entry
EntryText(e) == e.key \o "=" \o ToString(e.value.n)

\* C18: a codec mapping serializes its present entries only, as key=value
\* joined by commas in the mapping's order; with no present entry the
\* result is undefined and the server argument is the placeholder "-".
C18_CodecOptionsSerialization ==
    result.op = "toOptionValue" =>
        LET es == call.entries
            present == { i \in 1..Len(es) : es[i].value # Undefined }
        IN  /\ present = {} =>
                  /\ result.value = Undefined
                  /\ result.argument = "-"
            /\ present # {} =>
                  /\ result.value.t = "string"
                  /\ result.argument = result.value.s
            /\ present = { 1 } => result.value.s = EntryText(es[1])
            /\ present = { 2 } => result.value.s = EntryText(es[2])
            /\ present = { 1, 2 } =>
                  result.value.s = EntryText(es[1]) \o "," \o EntryText(es[2])

C18_Witness ==
    /\ result.op = "toOptionValue"
    /\ call.entries = << [key |-> "level", value |-> Undefined],
                         [key |-> "profile", value |-> Num(512)] >>
    /\ result.value = Str("profile=512")
    /\ result.argument = "profile=512"

\* C19: the merge clears the stored header: a header is stored only while
\* the last event is a Configuration, it is empty once a Frame has been
\* emitted, and a Frame that follows a Frame is its packet's data unmodified.
C19_HeaderClearedByMerge ==
    ~PassThrough =>
        /\ header.defined =>
              /\ Len(events) > 0
              /\ IsConfiguration(events[Len(events)])
        /\ (Len(events) > 0 /\ IsFrame(events[Len(events)])) => header = NoHeader
        /\ \A i \in 2..Len(events) :
              (IsFrame(events[i]) /\ IsFrame(events[i - 1])) =>
                  events[i].data = decoded[i].data

C19_Witness ==
    /\ ~PassThrough
    /\ Len(events) = 3
    /\ IsConfiguration(events[1])
    /\ IsFrame(events[2])
    /\ IsFrame(events[3])
    /\ Len(events[2].data) > Len(decoded[2].data)
    /\ Len(decoded[3].data) > 0
    /\ events[3].data = decoded[3].data
    /\ header = NoHeader

\* C20: each parameter-set packet that parses gives its own Configuration;
\* after consecutive ones the stored header is the data of the most recent
\* only, and the Frame that follows is that data and the frame's data.
C20_MostRecentHeaderOnly ==
    ~PassThrough =>
        \A i \in 1..Len(events) :
            /\ decoded[i].pts = NoPts => IsConfiguration(events[i])
            /\ IsConfiguration(events[i]) =>
                  /\ i = Len(events) => header = SomeHeader(decoded[i].data)
                  /\ (i < Len(events) /\ IsFrame(events[i + 1])) =>
                        events[i + 1].data = decoded[i].data \o decoded[i + 1].data

C20_Witness ==
    /\ ~PassThrough
    /\ Len(events) = 3
    /\ IsConfiguration(events[1])
    /\ IsConfiguration(events[2])
    /\ IsFrame(events[3])
    /\ Len(decoded[1].data) > 0
    /\ Len(decoded[3].data) > 0
    /\ events[3].data = decoded[2].data \o decoded[3].data
    /\ header = NoHeader

\* C21 as stated: the decoder mode and the server argument agree: on an
\* options object whose arguments have been formatted, parseVideoStream is
\* in pass-through mode exactly when the sendFrameMeta argument is "false",
\* and runs the packet state machine exactly when it is "true".
C21_ModeAgreesWithArgument ==
    (args # << >> /\ returned.op = "parseVideoStream") =>
        \A i \in 1..Len(getArgumentOrder) :
            getArgumentOrder[i] = "sendFrameMeta" =>
                /\ returned.passThrough <=> args[i] = "false"
                /\ ~returned.passThrough <=> args[i] = "true"

====
